---------------------------- MODULE Spec2Model ----------------------------
(***************************************************************************)
(* A model of GeoDataPipeline (src/ai/scripts/data_pipeline.py): raster    *)
(* ingestion / reprojection / band math, and the vector operations         *)
(* (ingestion, spatial join, buffer, statistics, GeoJSON conversion).      *)
(*                                                                         *)
(* The pipeline object holds no state of its own besides output_dir; the   *)
(* state of the model is the data a caller holds: the file that is read,   *)
(* the store obtained from it and the value returned by the last call.     *)
(***************************************************************************)
EXTENDS Integers, Sequences, FiniteSets, TLC

\* ------------------------------------------------------------------- state
VARIABLES
    rfile,      \* the raster file a caller works on
    rcall,      \* the last raster call: its name and arguments
    ringest,    \* what ingest_raster_data returned in that call
    rout        \* what the call returned (or raised)

rvars == <<rfile, rcall, ringest, rout>>

VARIABLES
    vfile,      \* the vector file a caller reads
    left,       \* the store the caller holds (NoStore before the first)
    depth,      \* how many results the caller has kept as its store
    vcall,      \* the last vector call: its name and arguments
    vout,       \* what the call returned or raised
    alias       \* whether the store returned is the very object passed in

vvars == <<vfile, left, depth, vcall, vout, alias>>

vars == <<rvars, vvars>>

\* ------------------------------------------------------------------ bounds
\* Largest number of bands of a raster file.
MaxBands == 4

\* Largest number of features of a vector file.
MaxRows == 2

\* Largest number of results a caller keeps as its store, one after another.
MaxDepth == 2

\* ------------------------------------------------------- CRS identifiers
\* A coordinate reference system, as the CRS object the libraries hold.
Systems == {"WGS84", "WebMercator", "LocalTM"}

\* The strings a caller may pass as target CRS: several spellings can denote
\* the same system.
CrsStrings == {"EPSG:4326", "epsg:4326", "EPSG:3857", "+proj=tmerc +lon_0=9"}

\* CRS.from_user_input(s): the system a string denotes.
SystemOf(s) ==
    CASE s = "EPSG:4326" -> "WGS84"
      [] s = "epsg:4326" -> "WGS84"
      [] s = "EPSG:3857" -> "WebMercator"
      [] s = "urn:ogc:def:crs:EPSG::3857" -> "WebMercator"
      [] OTHER -> "LocalTM"

\* str(crs): the one canonical string of a system.
CrsToString(c) ==
    CASE c = "WGS84" -> "EPSG:4326"
      [] c = "WebMercator" -> "EPSG:3857"
      [] OTHER -> "+proj=tmerc +lon_0=9"

\* The default value of the crs / target_crs parameters.
DefaultCrs == "EPSG:4326"

\* ----------------------------------------------------------------- rasters
\* Grid shapes <<height, width>>; a band is stored row-major, height*width
\* pixels.
Shapes == {<<1, 1>>, <<1, 2>>}

\* Pixel values of the files (dtype uint8).
PixelValues == {10, 30}

\* An optional value: <<>> is Python's None, <<v>> the value v.
None == <<>>

Some(v) == <<v>>

\* A file's nodata sentinel: absent, or a value some pixels hold.
NodataValues == {None, Some(10)}

RasterCrs == {"WGS84", "WebMercator"}

Bands(n, npix) == [1..n -> [1..npix -> PixelValues]]

\* What rasterio.open gives for a file: the dataset src.
RasterFiles ==
    UNION { UNION { { [crs |-> c, count |-> n, height |-> sh[1], width |-> sh[2],
                       dtype |-> "uint8", nodata |-> nd, data |-> d] :
                         c \in RasterCrs, nd \in NodataValues, d \in Bands(n, sh[1] * sh[2]) } :
                    sh \in Shapes } : n \in 1..MaxBands }

\* The georeferencing of a grid (bounds, affine transform): determined by the
\* system and the grid size.
Georef(c, h, w) == <<c, h, w>>

\* metadata as read, lines 64-73.
ReadMetadata(src) ==
    [bounds |-> Georef(src.crs, src.height, src.width),
     crs |-> CrsToString(src.crs),
     width |-> src.width,
     height |-> src.height,
     count |-> src.count,
     dtype |-> src.dtype,
     nodata |-> src.nodata,
     transform |-> Georef(src.crs, src.height, src.width)]

\* rasterio.warp.reproject on one band: every destination pixel is resampled
\* from the source pixel its centre maps back to (m[p], the same for all bands
\* since it is decided by the two grids), or keeps the fill value when it
\* falls outside the source (m[p] = 0).
ResampleBand(band, m, fill) ==
    [p \in DOMAIN m |-> IF m[p] = 0 THEN fill ELSE band[m[p]]]

\* The value reproject initialises the destination with: the source's nodata
\* if it has one, else 0.
FillValue(src) == IF src.nodata = None THEN 0 ELSE src.nodata[1]

\* A reprojection that fills the destination bands from the source bands in
\* reverse order.
ReprojectBandsReversed(src, target, sh, m) ==
    [data |-> [i \in 1..src.count |->
                  ResampleBand(src.data[src.count + 1 - i], m, FillValue(src))],
     shape |-> <<src.count, sh[1], sh[2]>>,
     metadata |-> [bounds |-> Georef(SystemOf(target), sh[1], sh[2]),
                   crs |-> target,
                   width |-> sh[2],
                   height |-> sh[1],
                   count |-> src.count,
                   dtype |-> src.dtype,
                   transform |-> Georef(SystemOf(target), sh[1], sh[2])],
     reprojected |-> TRUE]

\* _reproject_raster(src, target_crs) for a destination grid sh and a
\* pixel mapping m chosen by calculate_default_transform / reproject. shape
\* is the shape of the array of line 109: (src.count, height, width).
ReprojectRaster(src, target, sh, m) ==
    [data |-> [i \in 1..src.count |-> ResampleBand(src.data[i], m, FillValue(src))],
     shape |-> <<src.count, sh[1], sh[2]>>,
     metadata |-> [bounds |-> Georef(SystemOf(target), sh[1], sh[2]),
                   crs |-> target,
                   width |-> sh[2],
                   height |-> sh[1],
                   count |-> src.count,
                   dtype |-> src.dtype,
                   transform |-> Georef(SystemOf(target), sh[1], sh[2])],
     reprojected |-> TRUE]

\* The comparison of line 79: the two strings, character by character.
NeedsReproject(src, target) == CrsToString(src.crs) # target

\* The destination grids and pixel mappings the reprojection may arrive at.
PixelMaps(src, sh) == [1..(sh[1] * sh[2]) -> 0..(src.height * src.width)]

\* ingest_raster_data(file_path, target_crs): the set of values it may return.
IngestRasterData(src, target) ==
    IF NeedsReproject(src, target)
    THEN UNION { { ReprojectRaster(src, target, sh, m) : m \in PixelMaps(src, sh) } : sh \in Shapes }
    ELSE { [data |-> src.data, shape |-> <<src.count, src.height, src.width>>,
             metadata |-> ReadMetadata(src), reprojected |-> FALSE] }

\* ------------------------------------------------------------- band math
\* The value (num) / (den + 1e-8) of one pixel, kept as the exact pair.
Quotient(n, d) == [num |-> n, den |-> d]

\* The band math with red read from the first band instead of the third.
NdviRedFromBand1(data) ==
    [p \in DOMAIN data[4] |-> Quotient(data[4][p] - data[1][p], data[4][p] + data[1][p])]

\* Lines 152-154: nir = data[3], red = data[2] (0-based), pixel by pixel.
Ndvi(data) ==
    [p \in DOMAIN data[4] |-> Quotient(data[4][p] - data[3][p], data[4][p] + data[3][p])]

\* One turn of the loop of lines 149-164.
ApplyOperation(results, operation, data) ==
    IF operation = "ndvi" /\ Len(data) >= 4
    THEN [k \in DOMAIN results \cup {"ndvi"} |-> IF k = "ndvi" THEN Ndvi(data) ELSE results[k]]
    ELSE results

RECURSIVE RunOperations(_, _, _)
RunOperations(results, operations, data) ==
    IF operations = <<>>
    THEN results
    ELSE RunOperations(ApplyOperation(results, Head(operations), data), Tail(operations), data)

\* results = {} of line 147.
EmptyDict == [k \in {} |-> 0]

\* The lists of operations a caller passes; the second is the default.
OperationLists == {<<"ndvi">>, <<"ndvi", "clip", "resample">>, <<"clip">>}

\* process_satellite_imagery(file_path, operations), given what
\* ingest_raster_data returned.
ProcessSatelliteImagery(ingested, operations) ==
    [processed_data |-> RunOperations(EmptyDict, operations, ingested.data),
     metadata |-> ingested.metadata]

\* ---------------------------------------------------------- raster state
NoCall == [op |-> "none"]

NoValue == [status |-> "none"]

RasterInit ==
    /\ rfile \in RasterFiles
    /\ rcall = NoCall
    /\ ringest = NoValue
    /\ rout = NoValue

\* A call of ingest_raster_data(file, target), by a caller that holds no
\* result.
IngestRaster ==
    /\ rcall = NoCall
    /\ \E target \in CrsStrings :
      \E r \in IngestRasterData(rfile, target) :
        /\ rcall' = [op |-> "ingest_raster_data", target |-> target]
        /\ ringest' = r
        /\ rout' = [status |-> "ok", value |-> [data |-> r.data, metadata |-> r.metadata]]
        /\ UNCHANGED <<rfile, vvars>>

\* A call of process_satellite_imagery(file, operations).
ProcessImagery ==
    /\ rcall = NoCall
    /\ \E operations \in OperationLists :
      \E r \in IngestRasterData(rfile, DefaultCrs) :
        /\ rcall' = [op |-> "process_satellite_imagery", operations |-> operations]
        /\ ringest' = r
        /\ rout' = [status |-> "ok", value |-> ProcessSatelliteImagery(r, operations)]
        /\ UNCHANGED <<rfile, vvars>>

\* The caller drops the result; the pipeline keeps nothing of a call.
DropRasterResult ==
    /\ rcall # NoCall
    /\ rcall' = NoCall
    /\ ringest' = NoValue
    /\ rout' = NoValue
    /\ UNCHANGED <<rfile, vvars>>

RasterNext == IngestRaster \/ ProcessImagery \/ DropRasterResult


\* ------------------------------------------------------------ geometries
\* A geometry is its type and the set of closed axis-parallel boxes
\* <<x1, y1, x2, y2>> whose union it is: a Point is one degenerate box, a
\* LineString one box of no height or no width, a Polygon one box, a
\* MultiPolygon several; no box at all is the empty geometry.
Point(x, y) == [type |-> "Point", parts |-> {<<x, y, x, y>>}]

LineString(x1, y1, x2, y2) == [type |-> "LineString", parts |-> {<<x1, y1, x2, y2>>}]

Polygon(x1, y1, x2, y2) == [type |-> "Polygon", parts |-> {<<x1, y1, x2, y2>>}]

MultiPolygon(boxes) == [type |-> "MultiPolygon", parts |-> boxes]

EmptyPolygon == [type |-> "Polygon", parts |-> {}]

\* The geometries of the files.
FileGeometries ==
    { Point(0, 0),
      LineString(0, 0, 2, 0),
      Polygon(0, 0, 2, 2),
      MultiPolygon({<<4, 4, 6, 6>>, <<20, 20, 22, 22>>}) }

BoxesMeet(a, b) == a[1] <= b[3] /\ b[1] <= a[3] /\ a[2] <= b[4] /\ b[2] <= a[4]

\* Intersection of the interiors only: boxes that merely touch do not count.
IntersectsInterior(g, h) ==
    \E a \in g.parts, b \in h.parts :
        a[1] < b[3] /\ b[1] < a[3] /\ a[2] < b[4] /\ b[2] < a[4]

\* The predicate 'intersects': the two geometries share a point, their
\* boundaries included; an empty geometry intersects nothing.
Intersects(g, h) == \E a \in g.parts, b \in h.parts : BoxesMeet(a, b)

BoxArea(b) == (b[3] - b[1]) * (b[4] - b[2])

RECURSIVE AreaOfBoxes(_)
AreaOfBoxes(S) ==
    IF S = {} THEN 0
    ELSE LET b == CHOOSE y \in S : TRUE IN BoxArea(b) + AreaOfBoxes(S \ {b})

\* geometry.area: the boxes of a geometry do not overlap.
Area(g) == AreaOfBoxes(g.parts)

\* ---------------------------------------------------------- reprojection
\* The coordinate change between two systems: a system's coordinates are
\* those of WGS84 moved by the system's offset.
Offset(c) ==
    CASE c = "WGS84" -> 0
      [] c = "WebMercator" -> 100
      [] OTHER -> 200

TransformBox(b, from, to) ==
    LET d == Offset(to) - Offset(from)
    IN <<b[1] + d, b[2] + d, b[3] + d, b[4] + d>>

TransformGeometry(g, from, to) ==
    [type |-> g.type, parts |-> { TransformBox(b, from, to) : b \in g.parts }]

\* ----------------------------------------------------------- vector data
\* A store (GeoDataFrame): its CRS, its attribute columns and its rows, each
\* an index label, a geometry and the values of the columns (<<v>>, or <<>>
\* for a null).
Store(c, cols, rows) == [crs |-> c, columns |-> cols, rows |-> rows]

Row(i, g, a) == [index |-> i, geometry |-> g, attrs |-> a]

\* gdf.to_crs(crs), line 46.
ToCrs(gdf, target) ==
    Store(SystemOf(target), gdf.columns,
          [i \in DOMAIN gdf.rows |->
              Row(gdf.rows[i].index,
                  TransformGeometry(gdf.rows[i].geometry, gdf.crs, SystemOf(target)),
                  gdf.rows[i].attrs)])

\* A vector file: the CRS it declares (<<>> when it declares none) and its
\* features, each a geometry in GeoJSON form and a properties object.
VectorFile(c, feats) == [crs |-> c, features |-> feats]

Corner(b, k) ==
    CASE k = 1 -> <<b[1], b[2]>>
      [] k = 2 -> <<b[3], b[2]>>
      [] k = 3 -> <<b[3], b[4]>>
      [] k = 4 -> <<b[1], b[4]>>
      [] OTHER -> <<b[1], b[2]>>

\* shapely's mapping(geometry): the coordinate arrays of the GeoJSON form.
Coordinates(type, b) ==
    CASE type = "Point" -> <<Corner(b, 1)>>
      [] type = "LineString" -> <<Corner(b, 1), Corner(b, 3)>>
      [] OTHER -> [k \in 1..5 |-> Corner(b, k)]

Mapping(g) == [type |-> g.type, coordinates |-> { Coordinates(g.type, b) : b \in g.parts }]

\* shapely's shape(geojson): the geometry of coordinate arrays.
BoxOf(type, cs) ==
    CASE type = "Point" -> <<cs[1][1], cs[1][2], cs[1][1], cs[1][2]>>
      [] type = "LineString" -> <<cs[1][1], cs[1][2], cs[2][1], cs[2][2]>>
      [] OTHER -> <<cs[1][1], cs[1][2], cs[3][1], cs[3][2]>>

Shape(j) == [type |-> j.type, parts |-> { BoxOf(j.type, cs) : cs \in j.coordinates }]

Feature(g, props) == [geometry |-> Mapping(g), properties |-> props]

\* gpd.read_file(file_path), line 41: a file that declares no CRS is read as
\* GeoJSON's default, WGS84; the columns are the keys of the properties, a
\* feature without a key has a null there; the index is 0, 1, ...
ReadFile(file) ==
    LET cols == UNION { DOMAIN file.features[i].properties : i \in DOMAIN file.features }
    IN Store(IF file.crs = None THEN "WGS84" ELSE SystemOf(file.crs[1]),
             cols,
             [i \in DOMAIN file.features |->
                 Row(i - 1,
                     Shape(file.features[i].geometry),
                     [c \in cols |-> IF c \in DOMAIN file.features[i].properties
                                     THEN file.features[i].properties[c]
                                     ELSE None])])

\* ingest_vector_data(file_path, crs), lines 41-49. gdf.crs != crs compares
\* the CRS objects: the string is parsed first.
IngestVectorData(file, crs) ==
    LET gdf == ReadFile(file)
    IN IF gdf.crs # SystemOf(crs) THEN ToCrs(gdf, crs) ELSE gdf

\* ----------------------------------------------------------- spatial join
\* The names sjoin reserves for the index of the other side.
ReservedColumns == {"index_left", "index_right"}

\* Columns present on both sides get the suffixes _left and _right.
LeftName(k, gdf2) == IF k \in gdf2.columns THEN k \o "_left" ELSE k

RightName(k, gdf1) == IF k \in gdf1.columns THEN k \o "_right" ELSE k

JoinedColumns(gdf1, gdf2) ==
    { LeftName(k, gdf2) : k \in gdf1.columns } \cup {"index_right"}
        \cup { RightName(k, gdf1) : k \in gdf2.columns }

\* The row of a left row l and its match r; r = None for an unmatched left
\* row, whose right-hand columns are null.
JoinedRow(gdf1, gdf2, l, r) ==
    Row(l.index, l.geometry,
        [c \in JoinedColumns(gdf1, gdf2) |->
            IF \E k \in gdf1.columns : LeftName(k, gdf2) = c
            THEN l.attrs[CHOOSE k \in gdf1.columns : LeftName(k, gdf2) = c]
            ELSE IF r = None THEN None
            ELSE IF c = "index_right" THEN Some(r[1].index)
            ELSE r[1].attrs[CHOOSE k \in gdf2.columns : RightName(k, gdf1) = c]])

\* The rows of gdf2 from position j on that intersect the left row l.
RECURSIVE MatchesFrom(_, _, _, _)
MatchesFrom(gdf1, gdf2, l, j) ==
    IF j > Len(gdf2.rows) THEN <<>>
    ELSE (IF Intersects(l.geometry, gdf2.rows[j].geometry)
          THEN <<JoinedRow(gdf1, gdf2, l, Some(gdf2.rows[j]))>>
          ELSE <<>>) \o MatchesFrom(gdf1, gdf2, l, j + 1)

\* What a left row contributes when unmatched rows are always dropped.
MatchedOnly(gdf1, gdf2, l, how) == MatchesFrom(gdf1, gdf2, l, 1)

\* What a left row contributes to the join: its matches, or for how = 'left'
\* one row of nulls when it has none.
RowsOfLeft(gdf1, gdf2, l, how) ==
    LET m == MatchesFrom(gdf1, gdf2, l, 1)
    IN IF m = <<>> /\ how = "left" THEN <<JoinedRow(gdf1, gdf2, l, None)>> ELSE m

RECURSIVE JoinFrom(_, _, _, _)
JoinFrom(gdf1, gdf2, how, i) ==
    IF i > Len(gdf1.rows) THEN <<>>
    ELSE RowsOfLeft(gdf1, gdf2, gdf1.rows[i], how) \o JoinFrom(gdf1, gdf2, how, i + 1)

Returned(v) == [status |-> "ok", value |-> v]

Raised(e) == [status |-> e]

\* spatial_join(gdf1, gdf2, how), line 188: gpd.sjoin with the predicate
\* 'intersects'. sjoin only warns when the two CRS differ; it raises when a
\* frame has a column of a reserved name.
SpatialJoin(gdf1, gdf2, how) ==
    IF (gdf1.columns \cup gdf2.columns) \cap ReservedColumns # {}
    THEN Raised("ValueError")
    ELSE Returned(Store(gdf1.crs, JoinedColumns(gdf1, gdf2), JoinFrom(gdf1, gdf2, how, 1)))

\* ----------------------------------------------------------------- buffer
\* The distances a caller passes.
Distances == {0, 1, -1}

Grow(b, d) == <<b[1] - d, b[2] - d, b[3] + d, b[4] + d>>

\* A box grown by a negative distance may vanish.
Remains(b) == b[1] < b[3] /\ b[2] < b[4]

Areal(g) == g.type \in {"Polygon", "MultiPolygon"}

PolygonOf(boxes) ==
    [type |-> IF Cardinality(boxes) > 1 THEN "MultiPolygon" ELSE "Polygon", parts |-> boxes]

\* geometry.buffer(distance), line 204 (shapely / GEOS): always a polygonal
\* geometry. A Point or LineString has no area, so with a distance of 0 or
\* less nothing is left of it: POLYGON EMPTY. A polygon with distance 0 is
\* returned equal. The dilation is taken with squares in place of discs (the
\* corners of the result are not rounded); the boxes of the files' geometries
\* lie too far apart for their dilations to merge.
BufferGeometry(g, d) ==
    IF d <= 0 /\ ~Areal(g) THEN EmptyPolygon
    ELSE IF d = 0 THEN g
    ELSE PolygonOf({ b \in { Grow(a, d) : a \in g.parts } : Remains(b) })

\* buffer_analysis(gdf, distance), lines 203-205: a copy of the frame with the
\* geometry column replaced.
BufferAnalysis(gdf, distance) ==
    Returned(Store(gdf.crs, gdf.columns,
                   [i \in DOMAIN gdf.rows |->
                       Row(gdf.rows[i].index,
                           BufferGeometry(gdf.rows[i].geometry, distance),
                           gdf.rows[i].attrs)]))

\* The frame with its geometry column assigned in place (line 204 without the
\* copy of line 203): the frame passed and the frame returned are one object.
BufferInPlace(gdf, distance) ==
    [passed |-> BufferAnalysis(gdf, distance).value, same |-> TRUE]

\* The two frames of buffer_analysis(gdf, distance) when it returns: line 203
\* makes gdf_buffered a copy of gdf, a second object, and line 204 assigns the
\* geometry column of that copy. passed is the frame the caller passed, as it
\* is after the call; same tells whether the frame returned is that object.
BufferFrames(gdf, distance) ==
    LET frames == [gdf |-> gdf, gdf_buffered |-> gdf]
        assigned == [frames EXCEPT !.gdf_buffered = BufferAnalysis(gdf, distance).value]
    IN [passed |-> assigned.gdf, same |-> FALSE]

\* The frame after drop(index, inplace=True): no row is left.
WithoutRows(gdf) == Store(gdf.crs, gdf.columns, <<>>)

\* The distances that are not finite: float('nan'), float('inf'),
\* float('-inf').
NonFiniteDistances == {"nan", "inf", "-inf"}

\* The missing geometry (None) of a geometry column.
MissingGeometry == [type |-> "None", parts |-> {}]

\* The frame whose geometries are all missing.
WithMissingGeometries(gdf) ==
    Store(gdf.crs, gdf.columns,
          [i \in DOMAIN gdf.rows |-> Row(gdf.rows[i].index, MissingGeometry, gdf.rows[i].attrs)])

\* buffer_analysis(gdf, distance) for a distance that is not finite: the set
\* of its outcomes. Lines 203-205 do not look at the distance, so the outcome
\* is that of gdf.geometry.buffer. Applied geometry by geometry, shapely raises
\* ValueError (buffer distance must be finite) at the first geometry; applied
\* to the whole array, a NaN distance gives missing geometries without error
\* and an infinite one is refused by GEOS. A frame of no rows has no geometry
\* to refuse: the copy is returned.
BufferNonFinite(gdf, distance) ==
    IF Len(gdf.rows) = 0 THEN {Returned(gdf)}
    ELSE IF distance = "nan"
         THEN {Raised("ValueError"), Returned(WithMissingGeometries(gdf))}
         ELSE {Raised("ValueError"), Raised("GEOSException")}

\* -------------------------------------------------------------- statistics
NaN == "nan"

RECURSIVE SumOfAreas(_, _)
SumOfAreas(rows, i) ==
    IF i > Len(rows) THEN 0 ELSE Area(rows[i].geometry) + SumOfAreas(rows, i + 1)

AllBoxes(gdf) == UNION { gdf.rows[i].geometry.parts : i \in DOMAIN gdf.rows }

Min(S) == CHOOSE x \in S : \A y \in S : x <= y

Max(S) == CHOOSE x \in S : \A y \in S : x >= y

\* gdf.total_bounds: four NaN when there is no geometry with coordinates.
TotalBounds(gdf) ==
    LET bs == AllBoxes(gdf)
    IN IF bs = {} THEN <<NaN, NaN, NaN, NaN>>
       ELSE <<Min({ b[1] : b \in bs }), Min({ b[2] : b \in bs }),
              Max({ b[3] : b \in bs }), Max({ b[4] : b \in bs })>>

\* Statistics that average by dividing the total by the number of rows.
StatisticsByDivision(gdf) ==
    IF Len(gdf.rows) = 0 THEN Raised("ZeroDivisionError")
    ELSE Returned([feature_count |-> Len(gdf.rows),
                   total_area |-> SumOfAreas(gdf.rows, 1),
                   mean_area |-> <<SumOfAreas(gdf.rows, 1), Len(gdf.rows)>>,
                   bounds |-> TotalBounds(gdf),
                   crs |-> CrsToString(gdf.crs)])

\* calculate_statistics(gdf), lines 212-219. The mean of no areas is NaN (no
\* error); the mean is kept as the pair <<total, count>>.
CalculateStatistics(gdf) ==
    Returned([feature_count |-> Len(gdf.rows),
              total_area |-> SumOfAreas(gdf.rows, 1),
              mean_area |-> IF Len(gdf.rows) = 0 THEN NaN
                            ELSE <<SumOfAreas(gdf.rows, 1), Len(gdf.rows)>>,
              bounds |-> TotalBounds(gdf),
              crs |-> CrsToString(gdf.crs)])

\* ------------------------------------------------------------------ GeoJSON
\* crs.to_authority(): the authority and code of a system, if it has one.
ToAuthority(c) ==
    CASE c = "WGS84" -> Some(<<"EPSG", "4326">>)
      [] c = "WebMercator" -> Some(<<"EPSG", "3857">>)
      [] OTHER -> None

\* convert_to_geojson(gdf), line 177: json.loads(gdf.to_json()). The features
\* follow the rows; a feature's id is the row's index label; the document
\* names the CRS only when it is not WGS84 and has an authority code.
ConvertToGeojson(gdf) ==
    Returned([type |-> "FeatureCollection",
              features |-> [i \in DOMAIN gdf.rows |->
                               [id |-> gdf.rows[i].index,
                                type |-> "Feature",
                                properties |-> gdf.rows[i].attrs,
                                geometry |-> Mapping(gdf.rows[i].geometry)]],
              crs |-> IF gdf.crs # "WGS84" /\ ToAuthority(gdf.crs) # None
                      THEN Some("urn:ogc:def:crs:" \o ToAuthority(gdf.crs)[1][1]
                                   \o "::" \o ToAuthority(gdf.crs)[1][2])
                      ELSE None])

\* The document written to a file (json.dump), as read_file will see it.
FileOfDocument(doc) ==
    VectorFile(doc.crs,
               [i \in DOMAIN doc.features |->
                   [geometry |-> doc.features[i].geometry,
                    properties |-> doc.features[i].properties]])

\* ----------------------------------------------------------- vector state
FileFeatures == { Feature(g, [name |-> Some("a")]) : g \in FileGeometries }

VectorCrs == {"WGS84", "WebMercator"}

\* The files a caller starts from: each declares its CRS.
VectorFiles ==
    { VectorFile(Some(CrsToString(c)), feats) :
        c \in VectorCrs, feats \in UNION { [1..n -> FileFeatures] : n \in 0..MaxRows } }

\* The right-hand stores of the joins, ingested from files of zones.
ZoneFiles ==
    { VectorFile(Some("EPSG:4326"), <<Feature(Polygon(0, 0, 2, 2), [name |-> Some("z1")])>>),
      VectorFile(Some("EPSG:4326"), <<Feature(Polygon(2, 2, 5, 5), [zone |-> Some("z1")]),
                                      Feature(Point(0, 0), [zone |-> Some("z2")])>>) }

RightStores ==
    { IngestVectorData(f, "EPSG:4326") : f \in ZoneFiles }
        \cup { IngestVectorData(f, "EPSG:3857") : f \in ZoneFiles }

JoinModes == {"inner", "left"}

NoStore == [crs |-> "none"]

VectorInit ==
    /\ vfile \in VectorFiles
    /\ left = NoStore
    /\ depth = 0
    /\ vcall = NoCall
    /\ vout = NoValue
    /\ alias = FALSE

\* A call of ingest_vector_data(file, crs).
IngestVector ==
    /\ vcall = NoCall
    /\ \E crs \in CrsStrings :
        /\ vcall' = [op |-> "ingest_vector_data", crs |-> crs, file |-> "disk"]
        /\ vout' = Returned(IngestVectorData(vfile, crs))
    /\ UNCHANGED <<vfile, left, depth, alias, rvars>>

\* A call of spatial_join(left, right, how).
Join ==
    /\ vcall = NoCall
    /\ left # NoStore
    /\ \E right \in RightStores, how \in JoinModes :
        /\ vcall' = [op |-> "spatial_join", right |-> right, how |-> how]
        /\ vout' = SpatialJoin(left, right, how)
    /\ UNCHANGED <<vfile, left, depth, alias, rvars>>

\* A call of buffer_analysis(left, distance).
Buffer ==
    /\ vcall = NoCall
    /\ left # NoStore
    /\ \/ \E distance \in Distances :
            /\ vcall' = [op |-> "buffer_analysis", finite |-> TRUE, distance |-> distance]
            /\ vout' = BufferAnalysis(left, distance)
            /\ left' = BufferFrames(left, distance).passed
            /\ alias' = BufferFrames(left, distance).same
       \/ \E distance \in NonFiniteDistances :
            \E r \in BufferNonFinite(left, distance) :
              /\ vcall' = [op |-> "buffer_analysis", finite |-> FALSE, distance |-> distance]
              /\ vout' = r
              /\ UNCHANGED <<left, alias>>
    /\ UNCHANGED <<vfile, depth, rvars>>

\* A call of calculate_statistics(left).
Statistics ==
    /\ vcall = NoCall
    /\ left # NoStore
    /\ vcall' = [op |-> "calculate_statistics"]
    /\ vout' = CalculateStatistics(left)
    /\ UNCHANGED <<vfile, left, depth, alias, rvars>>

\* A call of convert_to_geojson(left).
ToGeojson ==
    /\ vcall = NoCall
    /\ left # NoStore
    /\ vcall' = [op |-> "convert_to_geojson"]
    /\ vout' = ConvertToGeojson(left)
    /\ UNCHANGED <<vfile, left, depth, alias, rvars>>

\* The caller writes the document it was returned to a file and calls
\* ingest_vector_data on that file.
IngestDocument ==
    /\ vcall.op = "convert_to_geojson"
    /\ \E crs \in CrsStrings :
        /\ vcall' = [op |-> "ingest_vector_data", crs |-> crs, file |-> "document"]
        /\ vout' = Returned(IngestVectorData(FileOfDocument(vout.value), crs))
    /\ UNCHANGED <<vfile, left, depth, alias, rvars>>

\* A store was returned (one of missing geometries is not worked on further).
StoreReturned ==
    /\ vcall.op \in {"ingest_vector_data", "spatial_join", "buffer_analysis"}
    /\ vout.status = "ok"
    /\ vcall.op = "buffer_analysis" => vcall.finite

\* The caller keeps the returned store as its store.
KeepStore ==
    /\ StoreReturned
    /\ depth < MaxDepth
    /\ left' = vout.value
    /\ depth' = depth + 1
    /\ vcall' = NoCall
    /\ vout' = NoValue
    /\ alias' = FALSE
    /\ UNCHANGED <<vfile, rvars>>

\* The caller modifies the store it was returned in place (it drops every
\* row): the store it passed changes with it when both are one object.
ModifyResult ==
    /\ StoreReturned
    /\ vcall.op # "ingest_vector_data"
    /\ Len(vout.value.rows) > 0
    /\ vcall' = [op |-> "drop", result |-> vcall.op]
    /\ vout' = Returned(WithoutRows(vout.value))
    /\ left' = IF alias THEN WithoutRows(vout.value) ELSE left
    /\ UNCHANGED <<vfile, depth, alias, rvars>>

\* The caller drops the result.
DropVectorResult ==
    /\ vcall # NoCall
    /\ vcall' = NoCall
    /\ vout' = NoValue
    /\ alias' = FALSE
    /\ UNCHANGED <<vfile, left, depth, rvars>>

VectorNext ==
    \/ IngestVector
    \/ Join
    \/ Buffer
    \/ Statistics
    \/ ToGeojson
    \/ IngestDocument
    \/ KeepStore
    \/ ModifyResult
    \/ DropVectorResult

\* ----------------------------------------------------------- specifications
\* No raster file is worked on.
RasterIdle ==
    /\ rfile = [crs |-> "none"]
    /\ rcall = NoCall
    /\ ringest = NoValue
    /\ rout = NoValue

\* No vector file is worked on.
VectorIdle ==
    /\ vfile = VectorFile(None, <<>>)
    /\ left = NoStore
    /\ depth = 0
    /\ vcall = NoCall
    /\ vout = NoValue
    /\ alias = FALSE

InitRaster == RasterInit /\ VectorIdle

InitVector == VectorInit /\ RasterIdle

\* The raster calls on any raster file.
SpecRaster == InitRaster /\ [][RasterNext]_vars

\* The vector calls on any vector file.
SpecVector == InitVector /\ [][VectorNext]_vars

\* --------------------------------------------------- raster properties
Range(f) == { f[x] : x \in DOMAIN f }

ProcessCalled == rcall.op = "process_satellite_imagery"

NdviRequested == ProcessCalled /\ "ndvi" \in Range(rcall.operations)

NdviComputed == ProcessCalled /\ rout.status = "ok" /\ "ndvi" \in DOMAIN rout.value.processed_data

AllPixels(band, v) == \A p \in DOMAIN band : band[p] = v

\* C1: requesting 'ndvi' on a raster with fewer than 4 bands ends in an
\* explicit InsufficientBands failure, never in a normal return whose result
\* lacks the index.
C1_InsufficientBandsRaised ==
    (NdviRequested /\ rfile.count < 4) => rout.status = "InsufficientBands"

\* C5: ingesting with a target identifier that denotes the system the file
\* already has is the identity: no call of _reproject_raster, the data and
\* the metadata as read, whatever the spelling of the identifier.
C5_SameSystemIsIdentity ==
    (rcall.op = "ingest_raster_data" /\ SystemOf(rcall.target) = rfile.crs)
        => /\ ~ringest.reprojected
           /\ rout.value.data = rfile.data
           /\ rout.value.metadata = ReadMetadata(rfile)

\* C6: wherever an operand band (red, nir) holds the nodata value of the
\* raster, the normalized difference is not the arithmetic value computed
\* from the sentinel.
C6_NodataPropagates ==
    (NdviComputed /\ rfile.nodata # None)
        => \A p \in DOMAIN ringest.data[4] :
             (ringest.data[3][p] = rfile.nodata[1] \/ ringest.data[4][p] = rfile.nodata[1])
                => rout.value.processed_data["ndvi"][p]
                     # Quotient(ringest.data[4][p] - ringest.data[3][p],
                                ringest.data[4][p] + ringest.data[3][p])

\* The result of the band math is one band of the grid of the ingested data,
\* every pixel (30 - 10) / (30 + 10 + eps).
NdviIsConstant20Over40 ==
    /\ NdviComputed
    /\ LET ndvi == rout.value.processed_data["ndvi"]
       IN /\ DOMAIN ndvi = 1..(rout.value.metadata.height * rout.value.metadata.width)
          /\ \A p \in DOMAIN ndvi : ndvi[p] = Quotient(20, 40)

\* C7 as stated: with band 1 (red) 10 everywhere and band 4 (nir) 30
\* everywhere in a 4-band raster, the result is (30-10)/(30+10+eps) at every
\* pixel, whatever bands 2 and 3 hold.
C7_RedIsBand1 ==
    (NdviRequested /\ Len(ringest.data) = 4
       /\ AllPixels(ringest.data[1], 10) /\ AllPixels(ringest.data[4], 30))
        => NdviIsConstant20Over40

\* C7 amended: with band 3 (red) 10 everywhere and band 4 (nir) 30 everywhere
\* in a 4-band raster, the result is one band of the same height and width,
\* (30-10)/(30+10+eps) at every pixel, whatever bands 1 and 2 hold.
C7_RedIsBand3 ==
    (NdviRequested /\ Len(ringest.data) = 4
       /\ AllPixels(ringest.data[3], 10) /\ AllPixels(ringest.data[4], 30))
        => NdviIsConstant20Over40

\* C7's case: such a raster processed, its first band not the red one.
C7_Witness ==
    /\ NdviRequested /\ Len(ringest.data) = 4
    /\ AllPixels(ringest.data[3], 10) /\ AllPixels(ringest.data[4], 30)
    /\ AllPixels(ringest.data[1], 30)
    /\ rout.value.metadata.width = 2
    /\ NdviIsConstant20Over40

IngestReprojected ==
    /\ rcall.op = "ingest_raster_data"
    /\ ringest.reprojected

\* The value a destination pixel outside the source extent is left with.
Untouched == IF rfile.nodata = None THEN 0 ELSE rfile.nodata[1]

\* C13: raster reprojection preserves band count and band order: the output
\* has as many bands as the source, output band i is resampled from source
\* band i only, the metadata's count, height and width are the three
\* dimensions of the returned array, and a destination pixel outside the
\* source extent holds in every band the value the array was initialised
\* with, never a value of another band or pixel.
C13_BandsPreserved ==
    IngestReprojected
        => LET data == rout.value.data
               metadata == rout.value.metadata
           IN /\ DOMAIN data = 1..rfile.count
              /\ ringest.shape = <<metadata.count, metadata.height, metadata.width>>
              /\ \A i \in DOMAIN data : DOMAIN data[i] = 1..(metadata.height * metadata.width)
              /\ \A p \in 1..(metadata.height * metadata.width) :
                    \/ \A i \in DOMAIN data : data[i][p] = Untouched
                    \/ \E q \in 1..(rfile.height * rfile.width) :
                          \A i \in DOMAIN data : data[i][p] = rfile.data[i][q]

\* A file of two different bands and no nodata was reprojected onto a grid of
\* two pixels: the first resampled from the source, the second outside it.
C13_Witness ==
    /\ IngestReprojected
    /\ rfile.count >= 2
    /\ rfile.nodata = None
    /\ rfile.data[1] # rfile.data[2]
    /\ ringest.shape = <<rfile.count, 1, 2>>
    /\ rout.value.data[1][1] # 0
    /\ rout.value.data[2][1] # rout.value.data[1][1]
    /\ \A i \in 1..rfile.count : rout.value.data[i][2] = 0

\* C14: the metadata returned by ingest_raster_data has the same fields
\* whether or not the raster was reprojected: bounds, crs, width, height,
\* count, dtype, transform and nodata, the last being the source's sentinel.
C14_SameFieldsOnBothPaths ==
    rcall.op = "ingest_raster_data"
        => /\ DOMAIN rout.value.metadata
                = {"bounds", "crs", "width", "height", "count", "dtype", "transform", "nodata"}
           /\ rout.value.metadata.nodata = rfile.nodata

\* --------------------------------------------------- vector properties
JoinCalled(how) == vcall.op = "spatial_join" /\ vcall.how = how

JoinReturned(how) == JoinCalled(how) /\ vout.status = "ok"

InBox(b, x, y) == b[1] <= x /\ x <= b[3] /\ b[2] <= y /\ y <= b[4]

\* Two geometries share a point: two closed boxes that meet have one of
\* their corner coordinates in common.
SharePoint(g, h) ==
    \E a \in g.parts, b \in h.parts :
        \E x \in {a[1], a[3], b[1], b[3]}, y \in {a[2], a[4], b[2], b[4]} :
            InBox(a, x, y) /\ InBox(b, x, y)

\* The output rows of the join that pair left row i with right row j.
PairRows(i, j) ==
    { k \in DOMAIN vout.value.rows :
        /\ vout.value.rows[k].index = left.rows[i].index
        /\ vout.value.rows[k].attrs["index_right"] = Some(vcall.right.rows[j].index) }

\* The output rows of the join that carry left row i with no right row.
UnmatchedRows(i) ==
    { k \in DOMAIN vout.value.rows :
        /\ vout.value.rows[k].index = left.rows[i].index
        /\ vout.value.rows[k].attrs["index_right"] = None }

MatchesOf(i) ==
    { j \in DOMAIN vcall.right.rows :
        SharePoint(left.rows[i].geometry, vcall.right.rows[j].geometry) }

\* Every output row carries the geometry of the left row whose index it has.
KeepsLeftGeometry ==
    \A k \in DOMAIN vout.value.rows :
        \E i \in DOMAIN left.rows :
            /\ vout.value.rows[k].index = left.rows[i].index
            /\ vout.value.rows[k].geometry = left.rows[i].geometry

\* C2: spatial_join fails with CrsMismatch, and returns no store, whenever
\* the two stores carry different CRS.
C2_CrsMismatchRaised ==
    (vcall.op = "spatial_join" /\ left.crs # vcall.right.crs)
        => vout.status = "CrsMismatch"

\* C3: an inner join of stores of equal CRS that returns has exactly one row
\* per pair of a left and a right row whose geometries share a point
\* (boundaries included) and none for any other pair, every row with the left
\* geometry; left rows without match are absent; at most |left| * |right| rows.
C3_InnerJoin ==
    (JoinReturned("inner") /\ left.crs = vcall.right.crs)
        => /\ \A i \in DOMAIN left.rows, j \in DOMAIN vcall.right.rows :
                Cardinality(PairRows(i, j)) = IF j \in MatchesOf(i) THEN 1 ELSE 0
           /\ \A i \in DOMAIN left.rows : UnmatchedRows(i) = {}
           /\ DOMAIN vout.value.rows
                = UNION { PairRows(i, j) : i \in DOMAIN left.rows, j \in DOMAIN vcall.right.rows }
           /\ KeepsLeftGeometry
           /\ Len(vout.value.rows) <= Len(left.rows) * Len(vcall.right.rows)

\* C3's case: an inner join that pairs geometries meeting only in a boundary
\* point, and drops a left row that meets nothing.
C3_Witness ==
    /\ JoinReturned("inner") /\ left.crs = vcall.right.crs
    /\ \E i \in DOMAIN left.rows : MatchesOf(i) = {}
    /\ \E i \in DOMAIN left.rows, j \in DOMAIN vcall.right.rows :
          /\ left.rows[i].geometry.type = "Polygon"
          /\ vcall.right.rows[j].geometry.type = "Polygon"
          /\ left.rows[i].geometry # vcall.right.rows[j].geometry
          /\ PairRows(i, j) # {}
    /\ Len(vout.value.rows) >= 2

\* The columns of a join's output that come from the right store.
RightColumns == vout.value.columns \ { LeftName(k, vcall.right) : k \in left.columns }

\* C4: a left join that returns has every left row that meets no right row
\* exactly once, its right-hand attributes null, and every other left row
\* once per right row it meets; no left row is lost.
C4_LeftJoin ==
    JoinReturned("left")
        => /\ \A i \in DOMAIN left.rows :
                IF MatchesOf(i) = {}
                THEN /\ Cardinality(UnmatchedRows(i)) = 1
                     /\ \A k \in UnmatchedRows(i), c \in RightColumns :
                           vout.value.rows[k].attrs[c] = None
                ELSE UnmatchedRows(i) = {}
           /\ \A i \in DOMAIN left.rows, j \in DOMAIN vcall.right.rows :
                Cardinality(PairRows(i, j)) = IF j \in MatchesOf(i) THEN 1 ELSE 0
           /\ DOMAIN vout.value.rows
                = UNION { UnmatchedRows(i) \cup UNION { PairRows(i, j) : j \in DOMAIN vcall.right.rows } :
                            i \in DOMAIN left.rows }
           /\ KeepsLeftGeometry

\* C4's case: a left join with an unmatched left row and a left row matched
\* by two right rows.
C4_Witness ==
    /\ JoinReturned("left")
    /\ \E i \in DOMAIN left.rows : MatchesOf(i) = {} /\ Cardinality(UnmatchedRows(i)) = 1
    /\ \E i \in DOMAIN left.rows : Cardinality(MatchesOf(i)) = 2
    /\ RightColumns # {"index_right"}

\* Two stores with the same CRS, as many rows, and row by row equal
\* geometries and equal attribute maps.
SameStore(s, t) ==
    /\ s.crs = t.crs
    /\ Len(s.rows) = Len(t.rows)
    /\ \A i \in DOMAIN s.rows :
          /\ s.rows[i].geometry = t.rows[i].geometry
          /\ s.rows[i].attrs = t.rows[i].attrs

\* C8: the document convert_to_geojson returns for a store, ingested (in the
\* store's own CRS), gives the store back: same CRS, same rows in the same
\* order, equal geometries, equal attribute maps.
C8_RoundTrip ==
    (vcall.op = "ingest_vector_data" /\ vcall.file = "document"
       /\ SystemOf(vcall.crs) = left.crs)
        => SameStore(vout.value, left)

\* C9: calculate_statistics returns normally for every store, a store of no
\* rows included, and feature_count is the number of rows.
C9_FeatureCount ==
    vcall.op = "calculate_statistics"
        => /\ vout.status = "ok"
           /\ vout.value.feature_count = Len(left.rows)

\* C9's case: the statistics of a store of no rows.
C9_Witness ==
    /\ vcall.op = "calculate_statistics"
    /\ Len(left.rows) = 0
    /\ vout.status = "ok"
    /\ vout.value.feature_count = 0

\* C10: buffer with distance 0 returns every row with a geometry equal to the
\* original, whatever its type, the rows, their order and attributes unchanged.
C10_ZeroBufferIsIdentity ==
    (vcall.op = "buffer_analysis" /\ vcall.finite /\ vcall.distance = 0)
        => /\ vout.status = "ok"
           /\ Len(vout.value.rows) = Len(left.rows)
           /\ \A i \in DOMAIN left.rows :
                 /\ vout.value.rows[i].geometry = left.rows[i].geometry
                 /\ vout.value.rows[i].attrs = left.rows[i].attrs

\* C11: buffer fails, and returns no store, whenever the distance is not
\* finite (NaN, +infinity, -infinity); for every finite distance, positive or
\* negative, it returns a store.
C11_NonFiniteDistanceFails ==
    vcall.op = "buffer_analysis"
        => IF vcall.finite THEN vout.status = "ok" ELSE vout.status # "ok"

TransformCalled ==
    /\ vcall = NoCall
    /\ vcall'.op \in {"buffer_analysis", "spatial_join", "calculate_statistics",
                      "convert_to_geojson"}

ResultModified ==
    /\ vcall # NoCall
    /\ vcall'.op = "drop"

\* C12: no operation mutates a store it receives: a call of buffer_analysis,
\* spatial_join, calculate_statistics or convert_to_geojson leaves the store
\* passed as it was, the store returned is another object, and modifying the
\* store returned afterwards leaves the store passed as it was.
C12_InputsNotMutated ==
    [][(TransformCalled \/ ResultModified) => (left' = left /\ ~alias')]_vars

\* A buffered store with rows was returned, its rows were dropped by the
\* caller, and the store passed still has its rows.
C12_Witness ==
    /\ vcall.op = "drop"
    /\ vcall.result = "buffer_analysis"
    /\ Len(vout.value.rows) = 0
    /\ Len(left.rows) > 0

=============================================================================
